---- MODULE Spec2Model ----
(***************************************************************************)
(* Model of the terminal browser "tap": the fuzzy list navigator           *)
(* (src/src/fuzzy/fuzzy_view.rs, FuzzyView) and the session controller     *)
(* with its two-slot path history and random retry sampler                 *)
(* (src/src/app.rs, App).                                                  *)
(*                                                                         *)
(* Two specifications share the variables:                                 *)
(*   Spec     the event handlers of FuzzyView                              *)
(*   AppSpec  init_player and the global shortcuts of App                  *)
(***************************************************************************)
EXTENDS Integers, Sequences, FiniteSets, TLC

VARIABLES
    query,        \* FuzzyView.query: the text input, a sequence of chars
    cursor,       \* FuzzyView.cursor: byte offset into query
    selected,     \* FuzzyView.selected
    offset,       \* FuzzyView.offset
    matches,      \* FuzzyView.matches
    items,        \* FuzzyView.items: sequence of [path, weight, indices]
    available_y,  \* FuzzyView.available_y
    view,         \* the front layer: "fuzzy" or "player"
    notice,       \* message of the ErrorView shown by the last handler, or NoNotice
    status,       \* "init", "running", "random", "exited" or "panicked"
    history,      \* the user data Vec<PathBuf>: [previous, current]
    player,       \* path of the PlayerView on screen, or NoPath
    count,        \* new_random_search: the attempt counter of the loop
    built,        \* paths from which Player::new returned Ok so far
    fuzzy_mode,   \* App.fuzzy_mode
    searchable,   \* App.searchable
    path,         \* App.path
    dirs          \* the directories the random draw can resolve to

vars == <<query, cursor, selected, offset, matches, items, available_y, view,
          notice, status, history, player, count, built, fuzzy_mode,
          searchable, path, dirs>>

navVars == <<query, cursor, selected, offset, matches, items, available_y>>
appVars == <<count, fuzzy_mode, searchable, path, dirs>>

----------------------------------------------------------------------------
(* Bounds of the model *)

\* longest query, in chars
MaxQuery == 2
\* tallest terminal, in rows (size.y)
MaxRows == 5
\* cap on `selected` and `offset`, which the handlers can grow without limit
\* once the selection has left the list
MaxSelected == 4

----------------------------------------------------------------------------
(* Text: chars, bytes and grapheme clusters *)

\* "u0301" is the combining acute accent: two bytes in UTF-8, and a
\* Grapheme_Extend character, so it joins the cluster of the char before it.
Chars == {"a", "u0301"}

len_utf8(ch) == IF ch = "u0301" THEN 2 ELSE 1

IsExtend(ch) == ch = "u0301"

RECURSIVE ByteLen(_)
ByteLen(text) ==
    IF text = <<>> THEN 0 ELSE len_utf8(Head(text)) + ByteLen(Tail(text))

\* The number of chars of `text` that lie before byte offset `at`.
CharsBefore(text, at) ==
    CHOOSE k \in 0..Len(text) : ByteLen(SubSeq(text, 1, k)) = at

\* text.graphemes(true).next().unwrap(): the first char and the Extend
\* chars that follow it.
RECURSIVE ExtendRun(_)
ExtendRun(text) ==
    IF text # <<>> /\ IsExtend(Head(text))
    THEN <<Head(text)>> \o ExtendRun(Tail(text))
    ELSE <<>>

FirstGrapheme(text) == <<Head(text)>> \o ExtendRun(Tail(text))

\* text.graphemes(true).last().unwrap(): from the last char that starts a
\* cluster to the end of the text.
LastGraphemeStart(text) ==
    LET starts == {i \in 1..Len(text) : i = 1 \/ ~IsExtend(text[i])}
    IN  CHOOSE i \in starts : \A j \in starts : j <= i

LastGrapheme(text) == SubSeq(text, LastGraphemeStart(text), Len(text))

----------------------------------------------------------------------------
(* The catalog: a small directory tree under the search root "/m" *)

NoPath == "none"

\* The search root (args::search_root()).
Root == "/m"

Entries ==
    [p \in {"/m/ab", "/m/b", "/m/d", "/m/s", "/m/d/a", "/m/d/b", "/m/s/a",
             "/m/d/b/x"} |->
        CASE p = "/m/ab"  -> [display |-> <<"a", "b">>, has_audio |-> TRUE,  children |-> <<>>]
          [] p = "/m/b"   -> [display |-> <<"b">>,      has_audio |-> TRUE,  children |-> <<>>]
          [] p = "/m/d"   -> [display |-> <<"b", "a">>, has_audio |-> FALSE, children |-> <<"/m/d/a", "/m/d/b">>]
          [] p = "/m/s"   -> [display |-> <<"a", "a">>, has_audio |-> FALSE, children |-> <<"/m/s/a">>]
          [] p = "/m/d/a" -> [display |-> <<"a">>,      has_audio |-> TRUE,  children |-> <<>>]
          [] p = "/m/d/b" -> [display |-> <<"a", "b">>, has_audio |-> FALSE, children |-> <<"/m/d/b/x">>]
          [] p = "/m/d/b/x" -> [display |-> <<"a">>,    has_audio |-> FALSE, children |-> <<>>]
          [] p = "/m/s/a" -> [display |-> <<"a">>,      has_audio |-> TRUE,  children |-> <<>>]]

Display(p) == Entries[p].display
child_count(p) == Len(Entries[p].children)
has_audio(p) == Entries[p].has_audio

\* The leaves: the paths a playback session can be asked for.
Leaves == {p \in DOMAIN Entries : child_count(p) = 0}

\* A freshly scanned item: no query is active, so weight 1 and no indices.
NewItem(p) == [path |-> p, weight |-> 1, indices |-> <<>>]

\* create_items(dir), when it succeeds.
create_items(dir) ==
    LET paths == IF dir = Root THEN <<"/m/ab", "/m/b", "/m/d", "/m/s">>
                 ELSE Entries[dir].children
    IN  [i \in 1..Len(paths) |-> NewItem(paths[i])]

\* The catalogs a session can open on: the search root, or a directory
\* with nothing in it.
StartCatalogs == {create_items(Root), <<>>}

----------------------------------------------------------------------------
(* The fuzzy scorer (SkimMatcherV2::fuzzy_indices), by its contract:      *)
(* deterministic, a match iff the pattern is a subsequence of the label,  *)
(* indices ascending char offsets counted from 0.                         *)

\* The leftmost occurrence of `pattern` as a subsequence of `label` read
\* from char offset `at`; <<-1>> when there is none.
RECURSIVE Leftmost(_, _, _)
Leftmost(label, pattern, at) ==
    IF pattern = <<>> THEN <<>>
    ELSE IF at >= Len(label) THEN <<-1>>
    ELSE IF label[at + 1] = Head(pattern)
         THEN LET rest == Leftmost(label, Tail(pattern), at + 1)
              IN  IF rest = <<-1>> THEN <<-1>> ELSE <<at>> \o rest
         ELSE Leftmost(label, pattern, at + 1)

NoMatch == [hit |-> FALSE, weight |-> 0, indices |-> <<>>]

fuzzy_indices(label, pattern) ==
    IF pattern = <<>> THEN [hit |-> TRUE, weight |-> 0, indices |-> <<>>]
    ELSE LET ix == Leftmost(label, pattern, 0)
         IN  IF ix = <<-1>> THEN NoMatch
             ELSE LET span == ix[Len(ix)] - ix[1] + 1
                  IN  [hit |-> TRUE,
                       weight |-> 16 * Len(pattern)
                                  + (IF ix[1] = 0 THEN 8 ELSE 0)
                                  - (span - Len(pattern))
                                  - (Len(label) - span),
                       indices |-> ix]

----------------------------------------------------------------------------
(* Re-filtering *)

\* fuzzy_match: every item takes the scorer's verdict on `pattern`.
fuzzy_match_items(its, pattern) ==
    [i \in 1..Len(its) |->
        LET r == fuzzy_indices(Display(its[i].path), pattern)
        IN  IF r.hit
            THEN [its[i] EXCEPT !.weight = r.weight, !.indices = r.indices]
            ELSE [its[i] EXCEPT !.weight = 0, !.indices = <<>>]]

\* fuzzy_match: the returned count of items the scorer matched.
fuzzy_match_count(its, pattern) ==
    Cardinality({i \in 1..Len(its) : fuzzy_indices(Display(its[i].path), pattern).hit})

\* Insert `it` into a sequence sorted by weight descending, after every
\* item of greater or equal weight (what a stable sort does).
RECURSIVE InsertSorted(_, _)
InsertSorted(sorted, it) ==
    IF sorted = <<>> THEN <<it>>
    ELSE IF Head(sorted).weight >= it.weight
         THEN <<Head(sorted)>> \o InsertSorted(Tail(sorted), it)
         ELSE <<it>> \o sorted

\* sort: stable, by weight in descending order.
RECURSIVE sort(_)
sort(its) ==
    IF its = <<>> THEN <<>>
    ELSE InsertSorted(sort(SubSeq(its, 1, Len(its) - 1)), its[Len(its)])

\* update_list without the branch for an empty query.
update_list_no_reset(q, its, pattern) ==
    [items   |-> sort(fuzzy_match_items(its, pattern)),
     matches |-> fuzzy_match_count(its, pattern)]

\* update_list(pattern) with self.query = q: the new items and matches.
\* selected and offset are reset to 0 by the callers' action.
update_list(q, its, pattern) ==
    IF q = <<>>
    THEN [items   |-> [i \in 1..Len(its) |-> [its[i] EXCEPT !.weight = 1, !.indices = <<>>]],
          matches |-> Len(its)]
    ELSE [items   |-> sort(fuzzy_match_items(its, pattern)),
          matches |-> fuzzy_match_count(its, pattern)]

----------------------------------------------------------------------------
(* Selection movement, as functions of (selected, offset) *)

\* Stand-in for usize::MAX, the value of 0 - 1 in a build without overflow
\* checks; it is only ever compared with `selected`.
UsizeMax == 2147483647

\* move_down without the scroll that keeps the selection in the window.
move_down_no_scroll(sel, off) ==
    IF sel = 0 THEN [selected |-> sel, offset |-> off]
    ELSE [selected |-> sel - 1, offset |-> off]

move_down(sel, off) ==
    IF sel = 0 THEN [selected |-> sel, offset |-> off]
    ELSE [selected |-> sel - 1,
          offset   |-> IF sel = off THEN off - 1 ELSE off]

\* `last` is the value of self.matches - 1.  With sel < off the difference
\* sel - off wraps to a value above any available_y.
move_up(sel, off, last, ay) ==
    IF sel = last THEN [selected |-> sel, offset |-> off]
    ELSE [selected |-> sel + 1,
          offset   |-> IF sel < off \/ sel - off >= ay THEN off + 1 ELSE off]

page_up(sel, off, m, ay) ==
    IF m = 0 THEN [selected |-> sel, offset |-> off]
    ELSE IF sel + ay <= m - 1
         THEN [selected |-> sel + ay, offset |-> off + ay]
         ELSE [selected |-> m - 1,
               offset   |-> IF off + ay < m - 1 THEN off + ay ELSE off]

\* page_down with the threshold of `selected` tested on `offset`.
page_down_one_test(sel, off, m, ay) ==
    IF m = 0 THEN [selected |-> sel, offset |-> off]
    ELSE [selected |-> IF off > ay THEN sel - ay ELSE 0,
          offset   |-> IF off > ay THEN off - ay ELSE 0]

page_down(sel, off, m, ay) ==
    IF m = 0 THEN [selected |-> sel, offset |-> off]
    ELSE [selected |-> IF sel > ay THEN sel - ay ELSE 0,
          offset   |-> IF off > ay THEN off - ay ELSE 0]

\* layout: the rows left for the list in a terminal of size_y rows.
layout(size_y) == IF size_y > 2 THEN size_y - 3 ELSE 0

----------------------------------------------------------------------------
(* Query editing, as functions of (query, cursor) *)

\* move_left: the cursor after stepping over the cluster to its left.
move_left(q, c) ==
    IF c > 0
    THEN c - ByteLen(LastGrapheme(SubSeq(q, 1, CharsBefore(q, c))))
    ELSE c

\* move_right: the cursor after stepping over the cluster to its right.
move_right(q, c) ==
    IF c < ByteLen(q)
    THEN c + ByteLen(FirstGrapheme(SubSeq(q, CharsBefore(q, c) + 1, Len(q))))
    ELSE c

\* delete, when cursor < query.len(): the query without the cluster that
\* starts at the cursor (query.drain(cursor..cursor + len)).
drain(q, c) ==
    LET k == CharsBefore(q, c)
        n == Len(FirstGrapheme(SubSeq(q, k + 1, Len(q))))
    IN  SubSeq(q, 1, k) \o SubSeq(q, k + n + 1, Len(q))

\* query.insert(cursor, ch)
insert_char(q, c, ch) ==
    LET k == CharsBefore(q, c)
    IN  SubSeq(q, 1, k) \o <<ch>> \o SubSeq(q, k + 1, Len(q))

\* The pattern delete hands to update_list, and the query it leaves.
delete(q, c) ==
    IF c = ByteLen(q) THEN [query |-> q, pattern |-> <<>>, refilter |-> TRUE]
    ELSE IF c < ByteLen(q)
         THEN [query |-> drain(q, c), pattern |-> drain(q, c), refilter |-> TRUE]
         ELSE [query |-> q, pattern |-> <<>>, refilter |-> FALSE]

----------------------------------------------------------------------------
(* The path history kept in the user data *)

\* PathBuf::new(), the dummy entry init_player starts from.
Placeholder == ""

Last(paths) == paths[Len(paths)]

\* Push without the eviction of the oldest path.
Push_no_evict(paths, p) == Append(paths, p)

\* load_player: push the new path, drop the oldest beyond two.
Push(paths, p) ==
    LET pushed == Append(paths, p)
    IN  IF Len(pushed) > 2 THEN Tail(pushed) ELSE pushed

\* init_player without the replacement of the dummy entry.
Seed_keep_dummy(paths) == paths

\* init_player: replace the dummy entry by a copy of the last path.
Seed(paths) == Tail(Append(paths, Last(paths)))

\* previous() answering the newest entry instead of index 0.
previous_last(paths) == Last(paths)

\* previous_search: the path at index 0.
previous(paths) == Head(paths)

\* current_path: the second entry of the queue, if any.
current_path(paths) == IF Len(paths) >= 2 THEN paths[2] ELSE NoPath

NoNotice == "no notice"
NothingToSelect == "Nothing to select!"
BuildFailed == "player could not be built"

----------------------------------------------------------------------------
(* The handlers of FuzzyView *)

\* A FuzzyView is the front layer and the event loop is running.
InFuzzy == status = "running" /\ view = "fuzzy"

\* The process aborts: nothing else changes any more.
Panic ==
    /\ status' = "panicked"
    /\ UNCHANGED <<navVars, appVars, view, notice, history, player, built>>

\* The handler changed only (selected, offset).
Moved(pos) ==
    /\ pos.selected <= MaxSelected
    /\ pos.offset <= MaxSelected
    /\ selected' = pos.selected
    /\ offset' = pos.offset
    /\ notice' = NoNotice
    /\ UNCHANGED <<query, cursor, matches, items, available_y, appVars, view,
                   status, history, player, built>>

\* The handler set the query to q, the cursor to c, and ran update_list.
Refiltered(q, c, pattern) ==
    LET r == update_list(q, items, pattern)
    IN  /\ query' = q
        /\ cursor' = c
        /\ items' = r.items
        /\ matches' = r.matches
        /\ selected' = 0
        /\ offset' = 0
        /\ notice' = NoNotice
        /\ UNCHANGED <<available_y, appVars, view, status, history, player, built>>

\* A cursor movement that also re-filters with the current query.
CursorAt_refilter(c) == Refiltered(query, c, query)

\* The handler changed only the cursor.
CursorAt(c) ==
    /\ cursor' = c
    /\ notice' = NoNotice
    /\ UNCHANGED <<query, selected, offset, matches, items, available_y,
                   appVars, view, status, history, player, built>>

\* FuzzyView::load: a fresh view over `its` replaces the front layer; the
\* next layout gives it the rows of the terminal it is drawn on.
Load(its) ==
    /\ query' = <<>>
    /\ cursor' = 0
    /\ selected' = 0
    /\ offset' = 0
    /\ matches' = Len(its)
    /\ items' = its
    /\ view' = "fuzzy"
    /\ notice' = NoNotice
    /\ UNCHANGED <<available_y, appVars, status, history, player, built>>

\* The FuzzyView layer is popped and dropped; the player below is in front.
Dropped ==
    /\ query' = <<>>
    /\ cursor' = 0
    /\ selected' = 0
    /\ offset' = 0
    /\ matches' = 0
    /\ items' = <<>>
    /\ view' = "player"
    /\ UNCHANGED <<available_y, appVars, status>>

\* select_player: a selection equal to the current player only closes the
\* finder; any other is built and, when that succeeds, loaded as the new
\* player (which records it in the history), else reported.
select_player(p) ==
    IF p = current_path(history)
    THEN /\ Dropped
         /\ notice' = NoNotice
         /\ UNCHANGED <<history, player, built>>
    ELSE \E ok \in BOOLEAN :
            IF ok
            THEN /\ Dropped
                 /\ history' = Push(history, p)
                 /\ player' = p
                 /\ built' = built \cup {p}
                 /\ notice' = NoNotice
            ELSE /\ notice' = BuildFailed
                 /\ UNCHANGED <<navVars, appVars, view, status, history, player, built>>

\* on_select without the has_audio test on the single entry.
auto_descend_any_leaf(its) ==
    Len(its) = 1 /\ child_count(its[1].path) = 0

\* on_select: the child catalog is one playable leaf, which is selected
\* without listing it.
auto_descend(its) ==
    /\ Len(its) = 1
    /\ has_audio(its[1].path)
    /\ child_count(its[1].path) = 0

\* on_select: the callback run for Enter and for a press on the selected row.
on_select ==
    IF items = <<>>
    THEN /\ notice' = NothingToSelect
         /\ UNCHANGED <<navVars, appVars, view, status, history, player, built>>
    ELSE IF selected >= Len(items)
    THEN Panic  \* self.items[self.selected] is out of bounds
    ELSE LET item == items[selected + 1].path
         IN  IF child_count(item) = 0
             THEN select_player(item)
             ELSE \/ Panic  \* create_items(..).expect("should always exist")
                  \/ LET its == create_items(item)
                     IN  IF auto_descend(its)
                         THEN select_player(its[1].path)
                         ELSE Load(its)

Enter == InFuzzy /\ on_select

MoveDown == InFuzzy /\ Moved(move_down(selected, offset))

\* self.matches - 1 with matches = 0, and self.selected - self.offset with
\* selected < offset, panic in a build with overflow checks and wrap in one
\* without.
MoveUp ==
    /\ InFuzzy
    /\ \/ /\ \/ matches = 0
             \/ selected # matches - 1 /\ selected < offset
          /\ Panic
       \/ LET last == IF matches = 0 THEN UsizeMax ELSE matches - 1
          IN  Moved(move_up(selected, offset, last, available_y))

PageUp == InFuzzy /\ Moved(page_up(selected, offset, matches, available_y))

PageDown == InFuzzy /\ Moved(page_down(selected, offset, matches, available_y))

\* random_page with a strict comparison of the item count.
fits_one_page_strict(n, ay) == n < ay

\* random_page: everything fits on one page, nothing to jump to.
fits_one_page(n, ay) == n <= ay

\* The values y = page * available_y a draw of random_page can produce.
random_page_draws(n, ay) ==
    LET pages == n \div ay + 1
    IN  {page * ay : page \in 0..(pages - 1)}

\* random_page: draws again while y equals the offset, so it ends with a y
\* that differs; clear() then resets the query before the jump.
RandomPage ==
    /\ InFuzzy
    /\ IF fits_one_page(Len(items), available_y)
       THEN Moved([selected |-> selected, offset |-> offset])
       ELSE IF available_y = 0
       THEN Panic  \* items.len() / available_y divides by zero
       ELSE \E y \in random_page_draws(Len(items), available_y) :
               /\ y # offset
               /\ LET r == update_list(<<>>, items, <<>>)
                  IN  /\ query' = <<>>
                      /\ cursor' = 0
                      /\ items' = r.items
                      /\ matches' = r.matches
                      /\ selected' = y
                      /\ offset' = y
                      /\ notice' = NoNotice
                      /\ UNCHANGED <<available_y, appVars, view, status,
                                     history, player, built>>

\* mouse_select with the row counted from the wrong end by one.
mouse_target_off_by_one(ay, off, mouse_y) == ay + off - mouse_y

\* mouse_select: the index under row mouse_y.
mouse_target(ay, off, mouse_y) == ay + 1 + off - mouse_y

\* mouse_select: a left press at row mouse_y.
MouseSelect ==
    /\ InFuzzy
    /\ \E mouse_y \in 0..MaxRows :
          IF mouse_y < 1 \/ mouse_y > available_y + 1
          THEN Moved([selected |-> selected, offset |-> offset])
          ELSE LET next_selected == mouse_target(available_y, offset, mouse_y)
               IN  IF next_selected = selected
                   THEN on_select
                   ELSE Moved([selected |-> next_selected, offset |-> offset])

MoveLeft == InFuzzy /\ CursorAt(move_left(query, cursor))

MoveRight == InFuzzy /\ CursorAt(move_right(query, cursor))

Home == InFuzzy /\ CursorAt(0)

End == InFuzzy /\ CursorAt(ByteLen(query))

Insert ==
    /\ InFuzzy
    /\ Len(query) < MaxQuery
    /\ \E ch \in Chars :
          LET q == insert_char(query, cursor, ch)
          IN  Refiltered(q, cursor + len_utf8(ch), q)

Delete ==
    /\ InFuzzy
    /\ LET d == delete(query, cursor)
       IN  Refiltered(d.query, cursor, d.pattern)

Backspace ==
    /\ InFuzzy
    /\ IF cursor > 0
       THEN LET c == move_left(query, cursor)
                d == delete(query, c)
            IN  Refiltered(d.query, c, d.pattern)
       ELSE CursorAt(cursor)

Clear == InFuzzy /\ Refiltered(<<>>, 0, <<>>)

\* layout: the terminal is resized to size_y rows.
Layout ==
    /\ InFuzzy
    /\ \E size_y \in 0..MaxRows : available_y' = layout(size_y)
    /\ UNCHANGED <<query, cursor, selected, offset, matches, items, appVars,
                   view, notice, status, history, player, built>>

\* on_cancel: quit when no player was ever loaded, else close the finder.
Cancel ==
    /\ InFuzzy
    /\ IF current_path(history) = NoPath
       THEN /\ status' = "exited"
            /\ UNCHANGED <<navVars, appVars, view, notice, history, player, built>>
       ELSE /\ Dropped
            /\ notice' = NoNotice
            /\ UNCHANGED <<history, player, built>>

\* The directory `parent` loads: the one holding the directory of the
\* first item, or the search root itself when the items are the root's.
parent_dir(p) ==
    LET pop(x) == IF x \in {"/m/d/a", "/m/d/b"} THEN "/m/d"
                  ELSE IF x = "/m/d/b/x" THEN "/m/d/b"
                  ELSE IF x = "/m/s/a" THEN "/m/s"
                  ELSE Root
    IN  IF pop(p) # Root THEN pop(pop(p)) ELSE pop(p)

\* parent: nothing happens without items or when the catalog cannot be read.
Parent ==
    /\ InFuzzy
    /\ items # <<>>
    /\ \/ Load(create_items(parent_dir(items[1].path)))
       \/ /\ notice' = NoNotice
          /\ UNCHANGED <<navVars, appVars, view, status, history, player, built>>

\* Ctrl-o: self.items[self.selected] is read to open the file manager.
OpenFileManager ==
    /\ InFuzzy
    /\ IF selected >= Len(items)
       THEN Panic
       ELSE /\ notice' = NoNotice
            /\ UNCHANGED <<navVars, appVars, view, status, history, player, built>>

Init ==
    /\ query = <<>>
    /\ cursor = 0
    /\ selected = 0
    /\ offset = 0
    /\ items \in StartCatalogs
    /\ matches = Len(items)
    /\ available_y \in {layout(size_y) : size_y \in 0..MaxRows}
    /\ view = "fuzzy"
    /\ notice = NoNotice
    /\ status = "running"
    /\ history \in {<<Placeholder>>, <<"/m/b", "/m/ab">>}
    /\ player = current_path(history)
    /\ built = {p \in {player} : p # NoPath}
    /\ count = 0
    /\ fuzzy_mode = "FZF"
    /\ searchable = TRUE
    /\ path = Root
    /\ dirs = Leaves

Next ==
    \/ Enter
    \/ MoveDown
    \/ MoveUp
    \/ PageUp
    \/ PageDown
    \/ RandomPage
    \/ MouseSelect
    \/ MoveLeft
    \/ MoveRight
    \/ Home
    \/ End
    \/ Insert
    \/ Delete
    \/ Backspace
    \/ Clear
    \/ Layout
    \/ Cancel
    \/ Parent
    \/ OpenFileManager

Spec == Init /\ [][Next]_vars

\* The handlers at a viewport that is never resized.
FixedNext ==
    \/ Enter
    \/ MoveDown
    \/ MoveUp
    \/ PageUp
    \/ PageDown
    \/ RandomPage
    \/ MouseSelect
    \/ MoveLeft
    \/ MoveRight
    \/ Home
    \/ End
    \/ Insert
    \/ Delete
    \/ Backspace
    \/ Clear
    \/ Cancel
    \/ Parent
    \/ OpenFileManager

FixedSpec == Init /\ [][FixedNext]_vars

----------------------------------------------------------------------------
(* The session controller: init_player and the global shortcuts of App *)

\* The attempts new_random_search allows itself (while count < 10).
MaxAttempts == 10

\* The libraries a session can run on: the directories under the root.
DirChoices == {{"/m/b"}, {"/m/ab", "/m/b"}, {"/m/ab", "/m/b", "/m/d/a"}}

\* What get_fuzzy_path can return: a directory of the library, or the
\* search root when the finder was escaped.
FuzzyPaths == dirs \cup {path}

\* The FuzzyView variables of a session that shows no FuzzyView.
NoFinder ==
    /\ query = <<>>
    /\ cursor = 0
    /\ selected = 0
    /\ offset = 0
    /\ matches = 0
    /\ items = <<>>
    /\ available_y = 0
    /\ notice = NoNotice

\* new_fuzzy_search: what becomes of the finder's answer.
fuzzy_outcome(fuzzy_path, curr_path, is_first_run, ok) ==
    IF fuzzy_path = path \/ fuzzy_path = curr_path
    THEN (IF is_first_run THEN "exit" ELSE "clear")
    ELSE IF ok THEN "load" ELSE "none"

\* new_random_search with a loop that allows one attempt more.
while_cond_off_by_one(c) == c <= MaxAttempts

\* new_random_search: the loop condition, while count < 10.
while_cond(c) == c < MaxAttempts

\* new_random_search without the comparison with the current path.
random_outcome_no_compare(random_path, curr_path, ok) ==
    IF ok THEN "load" ELSE "reject"

\* new_random_search: what becomes of one draw.
random_outcome(random_path, curr_path, ok) ==
    IF random_path = curr_path THEN "reject"
    ELSE IF ok THEN "load" ELSE "reject"

\* load_player: the path is pushed and its PlayerView replaces the layer.
load_player(paths, p) ==
    /\ history' = Push(paths, p)
    /\ player' = p
    /\ view' = "player"
    /\ built' = built \cup {p}

\* init_player, with the first new_fuzzy_search or Player::new it runs.
InitPlayer ==
    /\ status = "init"
    /\ LET dummy == <<Placeholder>>
       IN  IF fuzzy_mode # "None"
           THEN \E fuzzy_path \in FuzzyPaths, ok \in BOOLEAN :
                   LET out == fuzzy_outcome(fuzzy_path, Last(dummy), TRUE, ok)
                   IN  CASE out = "exit" ->
                              /\ status' = "exited"
                              /\ history' = dummy
                              /\ UNCHANGED <<player, view, built>>
                         [] out = "load" ->
                              /\ status' = "running"
                              /\ history' = Seed(Push(dummy, fuzzy_path))
                              /\ player' = fuzzy_path
                              /\ view' = "player"
                              /\ built' = built \cup {fuzzy_path}
                         [] OTHER ->
                              /\ status' = "running"
                              /\ history' = Seed(dummy)
                              /\ UNCHANGED <<player, view, built>>
           ELSE \/ /\ status' = "running"
                   /\ history' = Seed(Push(dummy, path))
                   /\ player' = path
                   /\ view' = "player"
                   /\ built' = built \cup {path}
                \/ /\ status' = "exited"  \* Player::new(..)? returns the error
                   /\ history' = dummy
                   /\ UNCHANGED <<player, view, built>>
    /\ UNCHANGED <<navVars, appVars, notice>>

\* Tab: new_fuzzy_search(false, s)
NewFuzzySearch ==
    /\ status = "running"
    /\ IF fuzzy_mode = "None"
       THEN UNCHANGED <<history, player, view, built>>
       ELSE \E fuzzy_path \in FuzzyPaths, ok \in BOOLEAN :
               IF fuzzy_outcome(fuzzy_path, Last(history), FALSE, ok) = "load"
               THEN load_player(history, fuzzy_path)
               ELSE UNCHANGED <<history, player, view, built>>
    /\ UNCHANGED <<navVars, appVars, notice, status>>

\* 'r': new_random_search enters its loop unless nothing is searchable.
NewRandomSearch ==
    /\ status = "running"
    /\ IF searchable
       THEN status' = "random" /\ count' = 0
       ELSE UNCHANGED <<status, count>>
    /\ UNCHANGED <<navVars, fuzzy_mode, searchable, path, dirs, view, notice,
                   history, player, built>>

\* One pass of the loop body of new_random_search.
RandomAttempt ==
    /\ status = "random"
    /\ while_cond(count)
    /\ \E random_path \in dirs, ok \in BOOLEAN :
          IF random_outcome(random_path, Last(history), ok) = "load"
          THEN /\ load_player(history, random_path)
               /\ status' = "running"  \* break
               /\ UNCHANGED count
          ELSE /\ count' = count + 1
               /\ UNCHANGED <<status, history, player, view, built>>
    /\ UNCHANGED <<navVars, fuzzy_mode, searchable, path, dirs, notice>>

\* The loop condition count < 10 fails: new_random_search returns.
RandomExit ==
    /\ status = "random"
    /\ ~while_cond(count)
    /\ status' = "running"
    /\ UNCHANGED <<navVars, appVars, view, notice, history, player, built>>

\* '-': previous_search; Player::new(..).expect(..) aborts on failure.
PreviousSearch ==
    /\ status = "running"
    /\ \/ /\ load_player(history, previous(history))
          /\ UNCHANGED <<navVars, appVars, notice, status>>
       \/ Panic

\* 'q': s.quit()
Quit ==
    /\ status = "running"
    /\ status' = "exited"
    /\ UNCHANGED <<navVars, appVars, view, notice, history, player, built>>

AppInit ==
    /\ NoFinder
    /\ view = "none"
    /\ status = "init"
    /\ history = <<>>
    /\ player = NoPath
    /\ built = {}
    /\ count = 0
    /\ \/ /\ searchable = TRUE
          /\ fuzzy_mode \in {"FZF", "SK"}
          /\ path = Root
          /\ dirs \in DirChoices
       \/ /\ searchable = FALSE
          /\ fuzzy_mode = "None"
          /\ path \in {"/m/b", "/m/s/a"}
          /\ dirs = {}

AppNext ==
    \/ InitPlayer
    \/ NewFuzzySearch
    \/ NewRandomSearch
    \/ RandomAttempt
    \/ RandomExit
    \/ PreviousSearch
    \/ Quit

AppSpec == AppInit /\ [][AppNext]_vars

----------------------------------------------------------------------------
(* Properties of the navigator (Spec) *)

\* C1: in every navigator state `selected` is an index into the filtered
\* set: selected < matches when matches > 0, and selected = 0 when
\* matches = 0.
C1_SelectedInFilteredSet ==
    InFuzzy => IF matches > 0 THEN selected < matches ELSE selected = 0

\* A left press on the row of the current selection.
PressOnSelected ==
    /\ InFuzzy
    /\ \E mouse_y \in 1..(available_y + 1) :
          available_y + 1 + offset - mouse_y = selected
    /\ on_select

\* C2: a commit (Enter, or a press on the selected row) with matches = 0
\* shows the "nothing to select" notice and activates nothing, descends
\* nowhere and replaces no view.
C2_EmptyCommitOnlyNotifies ==
    [][(matches = 0 /\ (Enter \/ PressOnSelected))
         => /\ notice' = NothingToSelect
            /\ UNCHANGED <<navVars, view, status, history, player, built>>]_vars

\* The (weight, indices) the query q determines for a label.
Determined(label, q) ==
    IF q = <<>> THEN [weight |-> 1, indices |-> <<>>]
    ELSE LET r == fuzzy_indices(label, q)
         IN  IF r.hit THEN [weight |-> r.weight, indices |-> r.indices]
             ELSE [weight |-> 0, indices |-> <<>>]

\* C8: in every navigator state each item carries the (weight, indices)
\* that the current query determines for its label.
C8_WeightsFollowQuery ==
    InFuzzy =>
        \A i \in 1..Len(items) :
            LET d == Determined(Display(items[i].path), query)
            IN  items[i].weight = d.weight /\ items[i].indices = d.indices

\* The order the items are listed in.
Ordering(its) == [i \in 1..Len(its) |-> its[i].path]

\* C9: Delete with the cursor at the end of the text re-runs the filter
\* without changing the query, and leaves the ordering of the items and the
\* count of matches as they were.
C9_RefilterIdempotent ==
    [][(Delete /\ cursor = ByteLen(query))
         => /\ query' = query
            /\ Ordering(items') = Ordering(items)
            /\ matches' = matches]_vars

\* Move down, then move up, from the current (selected, offset).
DownThenUp ==
    LET d == move_down(selected, offset)
    IN  move_up(d.selected, d.offset, matches - 1, available_y)

\* C10, as claimed: from any selection with 0 < selected < matches, move
\* down followed by move up returns to the original (selected, offset).
C10_DownUpRestoresPair ==
    (InFuzzy /\ 0 < selected /\ selected < matches)
        => DownThenUp = [selected |-> selected, offset |-> offset]

\* C10, amended: from 0 < selected < matches, move down followed by move up
\* returns to the original (selected, offset) when the selection is inside
\* the window above its bottom row (offset < selected <= offset +
\* available_y); from the bottom row (selected = offset, available_y >= 1)
\* it returns to the original selected with offset one lower.
C10_DownUpInsideWindow ==
    (InFuzzy /\ 0 < selected /\ selected < matches)
        => /\ (offset < selected /\ selected <= offset + available_y)
                => DownThenUp = [selected |-> selected, offset |-> offset]
           /\ (selected = offset /\ available_y >= 1)
                => DownThenUp = [selected |-> selected, offset |-> offset - 1]

\* A selection inside the window, above its bottom row, with the list
\* scrolled.
C10_Witness ==
    /\ InFuzzy
    /\ 0 < offset
    /\ offset < selected
    /\ selected <= offset + available_y
    /\ selected < matches

----------------------------------------------------------------------------
(* Properties of the controller (AppSpec) *)

\* C3: the history never holds more than two paths; a push appends the
\* activated path at the end and evicts index 0 beyond two, so the last
\* entry is the most recently activated path.
C3_HistoryHoldsTwo ==
    [][/\ Len(history') <= 2
       /\ player' # NoPath => history'[Len(history')] = player'
       /\ (status # "init" /\ history' # history)
            => history' = IF Len(history) < 2
                          THEN history \o <<player'>>
                          ELSE <<history[2], player'>>]_vars

\* Two different paths were activated after the seeding: the older one was
\* evicted to index 0, the newer one is last.
C3_Witness ==
    /\ status = "running"
    /\ Len(history) = 2
    /\ history[1] # history[2]
    /\ history[1] # Placeholder
    /\ history[2] = player
    /\ Cardinality(built) >= 3

\* C4: when init_player activated a path p, the history it leaves is
\* exactly [p, p], so "previous" yields p.
C4_SeededWithTwoCopies ==
    [][(status = "init" /\ player' # NoPath)
         => /\ history' = <<player', player'>>
            /\ history'[1] # Placeholder
            /\ previous(history') = player']_vars

\* The session right after an initialization that activated a path.
C4_Witness ==
    /\ status = "running"
    /\ player # NoPath
    /\ built = {player}
    /\ history = <<player, player>>

\* C5: whenever the "previous" shortcut can fire, index 0 of the history is
\* a path a session was built from earlier, never the placeholder.
C5_PreviousWasBuilt ==
    status = "running"
        => previous(history) \in built /\ previous(history) # Placeholder

\* C6: the sampler makes at most 10 attempts; a rejected attempt changes
\* neither the view nor the history, and the loop gives up only after
\* exactly 10 rejections, with both unchanged.
C6_SamplerStopsAtTen ==
    [][status = "random"
         => /\ count <= 10 /\ count' <= 10
            /\ status' = "random"
                 => count' = count + 1 /\ UNCHANGED <<history, player, view>>
            /\ (status' = "running" /\ history' = history)
                 => count = 10 /\ UNCHANGED <<player, view, count>>]_vars

\* The single directory is the current selection and all ten attempts were
\* rejected.
C6_Witness ==
    /\ status = "random"
    /\ count = 10
    /\ dirs = {"/m/b"}
    /\ history = <<"/m/b", "/m/b">>
    /\ player = "/m/b"

\* C7: the sampler activates only a path that differs from the current leaf
\* (the last history entry), once: one push, the view replaced, the loop
\* left; a rejected draw changes nothing but the counter.
C7_SamplerSkipsCurrent ==
    [][(status = "random" /\ <<history, player, view, built>>' # <<history, player, view, built>>)
         => /\ player' # history[Len(history)]
            /\ player' \in dirs
            /\ history' = <<history[Len(history)], player'>>
            /\ view' = "player"
            /\ built' = built \cup {player'}
            /\ status' = "running"
            /\ count' = count]_vars

\* The sampler rejected some draws and then activated a new path.
C7_Witness ==
    /\ status = "running"
    /\ 0 < count /\ count < 10
    /\ Len(history) = 2
    /\ history[1] # history[2]
    /\ history[2] = player
    /\ player \in dirs

----------------------------------------------------------------------------
(* Properties of paging, pointer presses and editing (Spec) *)

\* Page up, then page down, from the current (selected, offset).
UpThenDownPage ==
    LET u == page_up(selected, offset, matches, available_y)
    IN  page_down(u.selected, u.offset, matches, available_y)

\* C11: from a position where page up does not clamp (selected +
\* available_y <= matches - 1), page up followed by page down returns
\* `selected` to its original value.
C11_PageUpDownRestoresSelected ==
    (InFuzzy /\ matches > 0 /\ selected + available_y <= matches - 1)
        => UpThenDownPage.selected = selected

\* A scrolled position above index 0 from which a whole page still fits.
C11_Witness ==
    /\ InFuzzy
    /\ available_y >= 1
    /\ 0 < selected
    /\ offset < selected
    /\ selected + available_y <= matches - 1

\* The rows of the list region with the index each of them targets.
RegionTargets == {available_y + 1 + offset - y : y \in 1..(available_y + 1)}

C13_PagingIdleWithoutRows ==
    [][(available_y = 0 /\ (PageUp \/ PageDown \/ RandomPage))
         => /\ status' = "running"
            /\ UNCHANGED <<query, selected, offset, matches>>]_vars

\* C14: random page on a catalog of at most available_y items changes
\* nothing: query, cursor, items, matches, selected and offset stay.
C14_RandomPageIdleOnOnePage ==
    [][(RandomPage /\ Len(items) <= available_y)
         => UNCHANGED <<query, cursor, items, matches, selected, offset,
                        status, view>>]_vars

\* A catalog that exactly fills the page, with a query active.
C14_Witness ==
    /\ InFuzzy
    /\ Len(items) >= 1
    /\ Len(items) = available_y
    /\ query # <<>>
    /\ matches < Len(items)

\* Byte offset c is a grapheme-cluster boundary of the text q: the start,
\* the end, or the start of a char that does not extend the one before it.
OnClusterBoundary(q, c) ==
    \E k \in 0..Len(q) :
        /\ ByteLen(SubSeq(q, 1, k)) = c
        /\ (k = 0 \/ k = Len(q) \/ ~IsExtend(q[k + 1]))

\* C15: the cursor is a byte offset in [0, len(query)] on a grapheme-cluster
\* boundary of the query, after any sequence of editing commands.
C15_CursorOnClusterBoundary ==
    InFuzzy => OnClusterBoundary(query, cursor)

\* A commit: Enter, or a left press on the selected row.
Commit == Enter \/ PressOnSelected

\* The path of the selected item, for a selection inside the catalog.
SelectedPath == items[selected + 1].path

\* C16: a construction failure during a commit (the child catalog of a
\* directory item, or the playback session of a leaf) aborts only that
\* commit: the program keeps running, view and history are unchanged.
C16_FailedCommitOnlyAborts ==
    [][(Commit /\ selected < Len(items))
         => /\ status' = "running"
            /\ notice' = BuildFailed
                 => UNCHANGED <<navVars, view, history, player>>]_vars

\* C17: a commit on a directory item whose child catalog is one playable
\* leaf hands that leaf to the player without ever listing the catalog; for
\* any other child catalog a fresh navigator over it becomes the view.
C17_SingletonAutoDescend ==
    [][(/\ Commit
        /\ selected < Len(items)
        /\ child_count(SelectedPath) > 0
        /\ status' = "running")
         => LET cat  == Entries[SelectedPath].children
                leaf == cat[1]
            IN  IF Len(cat) = 1 /\ has_audio(leaf) /\ child_count(leaf) = 0
                THEN \/ /\ view' = "player"
                        /\ player' = leaf
                        /\ current_path(history') = leaf
                     \/ /\ notice' = BuildFailed
                        /\ UNCHANGED <<navVars, view, history, player>>
                ELSE /\ view' = "fuzzy"
                     /\ Ordering(items') = cat
                     /\ \A i \in 1..Len(items') :
                           items'[i].weight = 1 /\ items'[i].indices = <<>>
                     /\ query' = <<>>
                     /\ cursor' = 0
                     /\ selected' = 0
                     /\ offset' = 0
                     /\ matches' = Len(cat)
                     /\ UNCHANGED <<history, player>>]_vars

\* The leaf under /m/s is playing: it is in no listed catalog, so it was
\* reached by the automatic descent.
C17_Witness ==
    /\ view = "player"
    /\ player = "/m/s/a"
    /\ current_path(history) = "/m/s/a"

\* C18: clearing the query leaves the query empty, the cursor at 0, every
\* weight 1 with no indices, matches the full item count and selected =
\* offset = 0.
C18_ClearResets ==
    [][Clear
         => /\ query' = <<>>
            /\ cursor' = 0
            /\ Ordering(items') = Ordering(items)
            /\ \A i \in 1..Len(items') :
                  items'[i].weight = 1 /\ items'[i].indices = <<>>
            /\ matches' = Len(items)
            /\ selected' = 0
            /\ offset' = 0]_vars

\* No query is active on the root catalog, yet the items are in the order a
\* filter left them in: a query was typed and then removed.
C18_Witness ==
    /\ InFuzzy
    /\ query = <<>>
    /\ cursor = 0
    /\ Len(items) = 4
    /\ Ordering(items) # Ordering(create_items(Root))
    /\ \A i \in 1..Len(items) : items[i].weight = 1
    /\ matches = 4
    /\ selected = 0

\* C19: at a fixed viewport with available_y >= 1 the selection stays in
\* the scrolled window: offset <= selected <= offset + available_y.
C19_SelectionInWindow ==
    (InFuzzy /\ available_y >= 1)
        => offset <= selected /\ selected <= offset + available_y

\* C20: when random page jumps, the y it assigns to selected and offset is
\* the index of an existing item and differs from the offset before.
C20_RandomPageLandsOnItem ==
    [][(RandomPage /\ Len(items) > available_y /\ status' = "running")
         => /\ selected' = offset'
            /\ offset' # offset
            /\ selected' < Len(items)]_vars

\* C21: move up with an empty filtered set is a no-op: the program keeps
\* running and selected and offset stay where they are (0).
C21_MoveUpIdleOnEmptyFilter ==
    [][(MoveUp /\ matches = 0)
         => /\ status' = "running"
            /\ selected' = selected /\ selected' = 0
            /\ offset' = offset /\ offset' = 0]_vars

\* C22: with history <<a, b>> and the session built, "previous" activates a
\* and leaves <<b, a>>; a second "previous" from there activates b again and
\* leaves <<a, b>>.
C22_PreviousSwapsHistory ==
    [][(PreviousSearch /\ Len(history) = 2 /\ status' = "running")
         => /\ view' = "player"
            /\ player' = history[1]
            /\ history' = <<history[2], history[1]>>
            /\ previous(history') = history[2]
            /\ Push(history', previous(history')) = history]_vars

\* Two different paths were played one after the other and the older one
\* has been brought back by "previous" semantics: it is the active session
\* and the newest entry of the history.
C22_Witness ==
    /\ status = "running"
    /\ view = "player"
    /\ Len(history) = 2
    /\ history[1] # history[2]
    /\ history[1] # Placeholder
    /\ player = history[2]
    /\ {history[1], history[2]} \subseteq built

\* C23: left, right, home and end change only the cursor: the query, the
\* items with their weights and order, matches, selected and offset are
\* unchanged.
C23_CursorMovesOnlyCursor ==
    [][(MoveLeft \/ MoveRight \/ Home \/ End)
         => UNCHANGED <<query, items, matches, selected, offset,
                        available_y, view, status, history, player>>]_vars

\* The cursor was moved back inside a query that filters the list, with the
\* selection away from 0.
C23_Witness ==
    /\ InFuzzy
    /\ query # <<>>
    /\ cursor < ByteLen(query)
    /\ 0 < matches /\ matches < Len(items)
    /\ selected > 0

====
